---------------------------- MODULE Spec2Model ----------------------------
(***************************************************************************)
(* Model of the tile downloader scripts osm_downloader.py (server choice,  *)
(* API key, flat-file tile cache, rate limiting) and downloader.py (the    *)
(* plain OpenStreetMap variant without prompts, cache or delay).           *)
(*                                                                         *)
(* Units.  Latitudes and longitudes are integers in 1/10000 degree, the    *)
(* resolution of the bounding box literals of the scripts (47.381, 8.3795, *)
(* 48.926, 10.6920).  Pixel coordinates are computed in exact rational     *)
(* arithmetic and truncated as int() truncates; floating point rounding is *)
(* not modelled.  Time is in units of 100 ms.                              *)
(*                                                                         *)
(* A line typed on stdin is a sequence of one-character strings.  The      *)
(* value None of api_key is the empty sequence (both are falsy in every    *)
(* test the script makes, and a stripped key that is empty is never        *)
(* stored).                                                                *)
(***************************************************************************)
EXTENDS Integers, Sequences, FiniteSets, TLC

VARIABLES
    script,                \* which of the two scripts runs
    session,               \* the lines the user will type (fixed per behaviour)
    nread,                 \* lines of the session already consumed by input()
    lat_min, lon_min, lat_max, lon_max, zoom,   \* module-level settings
    pc,                    \* position of the script
    tile_server_choice,    \* key of TILE_SERVERS, "" before the selection
    api_key,               \* stripped key, <<>> for None
    tiles, total_tiles,    \* list(mercantile.tiles(...)) and its length
    cols, rows, x_offset, y_offset,
    image,                 \* the canvas: set of pasted tiles [px, py, img]
    successful_downloads, failed_downloads, cached_tiles,
    i,                     \* loop index: tiles[i + 1] is the current tile
    cache,                 \* files of CACHE_DIR: cache file name -> bytes
    inflight,              \* the HTTP requests issued and not yet answered
    log,                   \* events of this run, in order: <<kind, tile index>>,
                           \* and <<kind, tile index, status>> for a response
    slept,                 \* total time spent in time.sleep in this run
    cropped_image,         \* <<>> or <<[left, top, right, bottom, width, height]>>
    saved,                 \* output files written: set of [name, width, height]
    exit_code,             \* -1 while running, else the process exit status
    run,                   \* number of the current run of the script
    faults,                \* failures the network and server may still produce
    server_version,        \* version of the map data the server renders
    prev_image, prev_failed \* canvas and failure count at the end of the previous run

vars == << script, session, nread, lat_min, lon_min, lat_max, lon_max, zoom, pc,
           tile_server_choice, api_key, tiles, total_tiles, cols, rows,
           x_offset, y_offset, image, successful_downloads, failed_downloads,
           cached_tiles, i, cache, inflight, log, slept, cropped_image, saved,
           exit_code, run, faults, server_version, prev_image, prev_failed >>

---------------------------------------------------------------------------
(* Bounds of the model *)

\* runs of the script in one behaviour (the cache directory persists between them)
MaxRuns == 2
\* zoom levels 1..MaxZoom are explored on the coordinate grid
MaxZoom == 2
\* failures (bad status, exception, undecodable body) the environment may inject
MaxFaults == 4

(* Program constants *)
tile_size == 256
\* REQUEST_DELAY = 0.3 s, in units of 100 ms
REQUEST_DELAY == 3

---------------------------------------------------------------------------
(* Arithmetic helpers *)

RECURSIVE Pow2(_)
Pow2(n) == IF n = 0 THEN 1 ELSE 2 * Pow2(n - 1)

\* Python's int() on a float given as the fraction n / d, d > 0: truncation to zero
Trunc(n, d) == IF n >= 0 THEN n \div d ELSE -((-n) \div d)

SetMax(S) == CHOOSE m \in S : \A e \in S : e <= m
SetMin(S) == CHOOSE m \in S : \A e \in S : m <= e

Last(s) == s[Len(s)]

---------------------------------------------------------------------------
(* mercantile: Web Mercator tiling.  Longitudes are scaled so that a tile   *)
(* is a whole number of units wide at every zoom used: 360 degrees are      *)
(* 3600000 = 2^7 * 28125 units.                                             *)

LonScale(z) == IF z <= 7 THEN 1 ELSE Pow2(z - 7)
TileWidth(z) == IF z <= 7 THEN 3600000 \div Pow2(z) ELSE 28125
\* distance from the antimeridian, in units of 1 / TileWidth(z) tile
LonPos(lon, z) == (lon + 1800000) * LonScale(z)

\* mercantile.ul(x, y, z)[1] for z <= 3: latitude of the north edge of row y
UlLat3 == << 850511, 791713, 665133, 409799, 0,
             -409799, -665133, -791713, -850511 >>
\* the rows of zoom 8 and zoom 10 that the bounding box of the scripts touches
UlLat8 == [y \in {0, 86, 87, 88, 89, 90, 91, 256} |->
             CASE y = 0 -> 850511 [] y = 86 -> 507365 [] y = 87 -> 498380
               [] y = 88 -> 489225 [] y = 89 -> 479899 [] y = 90 -> 470402
               [] y = 91 -> 460732 [] y = 256 -> -850511]
UlLat10 == [y \in {0, 1024} \cup (350..360) |->
             CASE y = 0 -> 850511 [] y = 1024 -> -850511
               [] y = 350 -> 493824 [] y = 351 -> 491530 [] y = 352 -> 489225
               [] y = 353 -> 486910 [] y = 354 -> 484584 [] y = 355 -> 482247
               [] y = 356 -> 479899 [] y = 357 -> 477541 [] y = 358 -> 475172
               [] y = 359 -> 472792 [] y = 360 -> 470402]

UlRows(z) == IF z <= 3 THEN 0 .. Pow2(z)
             ELSE IF z = 8 THEN DOMAIN UlLat8 ELSE DOMAIN UlLat10

UlLat(y, z) == IF z <= 3 THEN UlLat3[y * Pow2(3 - z) + 1]
               ELSE IF z = 8 THEN UlLat8[y] ELSE UlLat10[y]

\* mercantile.ul(x, y, z)[0], as a position in the units of LonPos
UlLonPos(x, z) == x * TileWidth(z)

(* mercantile.tile(lng, lat, zoom).  dlon and dlat in {-1, 0, 1} give the   *)
(* sign of an offset smaller than the unit added to lng and lat: tiles()    *)
(* calls tile(e - LL_EPSILON, s + LL_EPSILON).                              *)
TileX(lon, dlon, z) ==
    LET p == LonPos(lon, z)
        full == Pow2(z) * TileWidth(z)
    IN  IF p < 0 \/ (p = 0 /\ dlon <= 0) THEN 0
        ELSE IF p > full \/ (p = full /\ dlon >= 0) THEN Pow2(z) - 1
        ELSE IF dlon < 0 THEN (p - 1) \div TileWidth(z)
        ELSE p \div TileWidth(z)

TileY(lat, dlat, z) ==
    LET top == UlLat(0, z)
        bottom == UlLat(Pow2(z), z)
    IN  IF lat > top \/ (lat = top /\ dlat >= 0) THEN 0
        ELSE IF lat < bottom \/ (lat = bottom /\ dlat <= 0) THEN Pow2(z) - 1
        ELSE CHOOSE y \in UlRows(z) :
                /\ y + 1 \in UlRows(z)
                /\ IF dlat > 0
                     THEN UlLat(y, z) > lat /\ lat >= UlLat(y + 1, z)
                     ELSE UlLat(y, z) >= lat /\ lat > UlLat(y + 1, z)

Clamp(v, lo, hi) == IF v < lo THEN lo ELSE IF v > hi THEN hi ELSE v

(* list(mercantile.tiles(west, south, east, north, zoom)) for west <= east: *)
(* the box is clamped to the Web Mercator range, then the tiles from        *)
(* tile(w, n) to tile(e - LL_EPSILON, s + LL_EPSILON) are listed, x outer.  *)
MercantileTiles(west, south, east, north, z) ==
    LET w == Clamp(west, -1800000, 1800000)
        e == Clamp(east, -1800000, 1800000)
        s == Clamp(south, UlLat(Pow2(z), z), UlLat(0, z))
        n == Clamp(north, UlLat(Pow2(z), z), UlLat(0, z))
        ulx == TileX(w, 0, z)
        uly == TileY(n, 0, z)
        lrx == TileX(e, -1, z)
        lry == TileY(s, 1, z)
        nx == IF lrx >= ulx THEN lrx - ulx + 1 ELSE 0
        ny == IF lry >= uly THEN lry - uly + 1 ELSE 0
    IN  [k \in 1 .. (nx * ny) |->
            [x |-> ulx + ((k - 1) \div ny), y |-> uly + ((k - 1) % ny), z |-> z]]

---------------------------------------------------------------------------
(* lat_lon_to_pixel *)

\* the tile index is taken as it is, without the canvas offset
PixelX_NoOffset(lon, z, xo) ==
    LET tx == TileX(lon, 0, z)
        width == UlLonPos(tx + 1, z) - UlLonPos(tx, z)
    IN  Trunc(tx * tile_size * width
                 + (LonPos(lon, z) - UlLonPos(tx, z)) * tile_size, width)

PixelX(lon, z, xo) ==
    LET tx == TileX(lon, 0, z)
        width == UlLonPos(tx + 1, z) - UlLonPos(tx, z)
    IN  Trunc((tx - xo) * tile_size * width
                 + (LonPos(lon, z) - UlLonPos(tx, z)) * tile_size, width)

\* the position in the tile is measured from its south edge
PixelY_FromSouth(lat, z, yo) ==
    LET ty == TileY(lat, 0, z)
        height == UlLat(ty, z) - UlLat(ty + 1, z)
    IN  Trunc((ty - yo) * tile_size * height
                 + (lat - UlLat(ty + 1, z)) * tile_size, height)

PixelY(lat, z, yo) ==
    LET ty == TileY(lat, 0, z)
        height == UlLat(ty, z) - UlLat(ty + 1, z)
    IN  Trunc((ty - yo) * tile_size * height
                 + (UlLat(ty, z) - lat) * tile_size, height)

lat_lon_to_pixel(lat, lon) ==
    << PixelX(lon, zoom, x_offset), PixelY(lat, zoom, y_offset) >>

---------------------------------------------------------------------------
(* Tile servers and stdin *)

server_keys == << "osm", "stamen-toner-lite", "stamen-terrain",
                  "stamen-watercolor", "alidade-smooth", "alidade-smooth-dark" >>

TILE_SERVERS ==
    [k \in {server_keys[n] : n \in 1 .. Len(server_keys)} |->
        [format |-> IF k = "stamen-watercolor" THEN "jpg" ELSE "png",
         requires_key |-> k # "osm"]]

\* str.strip(): leading and trailing blanks removed
RECURSIVE LStrip(_)
LStrip(line) == IF line # << >> /\ Head(line) = " " THEN LStrip(Tail(line)) ELSE line
RECURSIVE RStrip(_)
RStrip(line) == IF line # << >> /\ Last(line) = " "
                  THEN RStrip(SubSeq(line, 1, Len(line) - 1)) ELSE line
Strip_Missing(line) == line
Strip(line) == RStrip(LStrip(line))

\* str.lower() on the characters a session uses
Lower(line) == [n \in 1 .. Len(line) |->
                  IF line[n] = "Y" THEN "y" ELSE IF line[n] = "N" THEN "n" ELSE line[n]]

Digits == << "0", "1", "2", "3", "4", "5", "6", "7", "8", "9" >>
DigitVal(c) == (CHOOSE d \in 1 .. 10 : Digits[d] = c) - 1
\* int(selection) succeeds (no ValueError) on a stripped line of digits
IsNumber(line) == line # << >> /\ \A n \in 1 .. Len(line) :
                                     \E d \in 1 .. 10 : Digits[d] = line[n]
RECURSIVE ParseInt(_)
ParseInt(line) == IF line = << >> THEN 0
                  ELSE 10 * ParseInt(SubSeq(line, 1, Len(line) - 1))
                         + DigitVal(Last(line))

---------------------------------------------------------------------------
(* Tile images, the cache directory, the canvas *)

\* the PNG or JPEG bytes the server renders for a tile from its current data
TileBytes(tile, version) == << "IMG", tile.x, tile.y, version >>
\* a body that is no image (an HTML error page, a truncated transfer)
ErrorBody == << "<html>" >>

\* Image.open(...) followed by the load that paste performs: succeeds on
\* bytes that start with an image signature, raises otherwise
Decodable(bytes) == Head(bytes) = "IMG"
\* the decoded pixels
Decode(bytes) == Tail(bytes)

\* api_key_suffix: "_k" + first 8 hex digits of md5(api_key), "" without a key
\* (the digest is kept symbolic: it is determined by the key, and one
\* behaviour uses one key)
ApiKeySuffix(key) == IF key # << >> THEN << "_k", key >> ELSE << >>

\* cache_file: f"{tile_server_choice}{api_key_suffix}_{z}_{x}_{y}.{format}"
CacheFile(tile) ==
    [server |-> tile_server_choice, suffix |-> ApiKeySuffix(api_key),
     z |-> tile.z, x |-> tile.x, y |-> tile.y,
     ext |-> TILE_SERVERS[tile_server_choice].format]

PastePos_NoOffset(tile) == << tile.x * tile_size, tile.y * tile_size >>

\* px, py of a tile
PastePos(tile) == << (tile.x - x_offset) * tile_size, (tile.y - y_offset) * tile_size >>

\* image.paste(tile_img, (px, py)): the tile replaces what the region held
Paste(im, img, pos) ==
    {p \in im : ~(p.px = pos[1] /\ p.py = pos[2])}
       \cup {[px |-> pos[1], py |-> pos[2], img |-> img]}

\* the request of requests.get(url, headers=headers)
Request(tile) ==
    [server |-> IF script = "downloader" THEN "osm" ELSE tile_server_choice,
     z |-> tile.z, x |-> tile.x, y |-> tile.y,
     bearer |-> IF script = "osm_downloader" /\ api_key # << >>
                    /\ TILE_SERVERS[tile_server_choice].requires_key
                  THEN api_key ELSE << >>]

\* what requests.get can end in: an exception, or a response
Outcomes(tile) ==
    {[kind |-> "exception", status_code |-> 0, content |-> << >>]}
      \cup {[kind |-> "response", status_code |-> 200, content |-> c] :
               c \in {TileBytes(tile, server_version), ErrorBody}}
      \cup {[kind |-> "response", status_code |-> st, content |-> ErrorBody] :
               st \in {404, 500}}

CacheExists_Never(cache_file) == FALSE

\* os.path.exists(cache_file)
CacheExists(cache_file) == cache_file \in DOMAIN cache

StatusOk_Below500(status_code) == status_code < 500

\* response.status_code == 200
StatusOk(status_code) == status_code = 200

CountFailure_Forgotten(failed) == failed

\* failed_downloads += 1
CountFailure(failed) == failed + 1

AfterCacheMiss_NoDelay == "get"

\* where the loop goes when the cache lookup finds no file: the rate limit
\* sleep that precedes the GET
AfterCacheMiss == "sleep"

AfterCacheError_Continue == [pc |-> "loop", i |-> i + 1]

\* where the loop goes when the cached file cannot be read: the except branch
\* only prints, and control falls through to the download of the same tile
AfterCacheError == [pc |-> "sleep", i |-> i]

AfterFailure_Retry == [pc |-> IF script = "downloader" THEN "get" ELSE "sleep", i |-> i]

\* where the loop goes after a failed download: the next iteration
AfterFailure == [pc |-> "loop", i |-> i + 1]

\* an outcome other than the tile image with status 200 is a fault of the environment
IsFault(o, tile) == ~(o.kind = "response" /\ o.status_code = 200
                        /\ o.content = TileBytes(tile, server_version))

---------------------------------------------------------------------------
(* Inputs *)

\* the bounding box both scripts are written with ("Panel 18")
PanelBox == [lat_min |-> 473810, lon_min |-> 83795,
             lat_max |-> 489260, lon_max |-> 106920]

Line(str) == << str >>

\* the interactive sessions of osm_downloader.py that are explored
Sessions ==
    { << << >>, Line("y") >>,                              \* default server
      << Line("1"), Line("Y") >>,
      << Line("1"), Line("n") >>,
      << Line("1"), << "y", " " >> >>,                     \* "y " is not "y"
      << Line("x"), Line("7"), Line("0"), << " ", "2" >>,
         Line("k"), Line("y") >>,                          \* re-prompts, then a key
      << << "4", " " >>, << " ", "k", " " >>, Line("y") >>, \* jpg server, padded key
      << Line("3"), << >> >>,                              \* empty key
      << Line("6"), << " ", " " >> >> }                    \* blank key

\* boxes of one to two tiles at zoom 1, for the runs with an unreliable network
SmallBoxes ==
    { PanelBox,
      [lat_min |-> 473810, lon_min |-> -100000, lat_max |-> 489260, lon_max |-> 106920],
      [lat_min |-> -100000, lon_min |-> 83795, lat_max |-> 489260, lon_max |-> 106920] }

\* the grid of corner coordinates: beyond the Web Mercator range, on its
\* edge, on tile boundaries and inside tiles
LonGrid == {-1850000, -1800000, -1000000, 0, 83795, 900000, 1800000, 1850000}
LatGrid == {860000, 850511, 700000, 665133, 473810, 0, -300000, -850511, -860000}

GridBoxes ==
    {[lat_min |-> a, lon_min |-> b, lat_max |-> c, lon_max |-> d] :
        a \in LatGrid, b \in LonGrid, c \in LatGrid, d \in LonGrid}

ValidBox(b) == b.lat_min < b.lat_max /\ b.lon_min < b.lon_max

---------------------------------------------------------------------------
(* The state after the interpreter has started a script *)

Start(scr) == IF scr = "osm_downloader" THEN "select" ELSE "tiles"

InitProcess ==
    /\ nread = 0
    /\ pc = Start(script)
    /\ tile_server_choice = ""
    /\ api_key = << >>
    /\ tiles = << >>
    /\ total_tiles = 0
    /\ cols = 0 /\ rows = 0 /\ x_offset = 0 /\ y_offset = 0
    /\ image = {}
    /\ successful_downloads = 0 /\ failed_downloads = 0 /\ cached_tiles = 0
    /\ i = 0
    /\ inflight = {}
    /\ log = << >>
    /\ slept = 0
    /\ cropped_image = << >>
    /\ exit_code = -1

InitWorld ==
    /\ cache = << >>
    /\ saved = {}
    /\ run = 1
    /\ server_version = 1
    /\ prev_image = {}
    /\ prev_failed = 0

SetBox(b) ==
    /\ lat_min = b.lat_min /\ lon_min = b.lon_min
    /\ lat_max = b.lat_max /\ lon_max = b.lon_max

\* runs over small boxes with every session and an unreliable network
Init ==
    /\ \/ script = "osm_downloader" /\ session \in Sessions
       \/ script = "downloader" /\ session = << >>
    /\ \E b \in SmallBoxes : SetBox(b)
    /\ zoom = 1
    /\ faults = MaxFaults
    /\ InitProcess /\ InitWorld

\* runs over every box of the grid, and over the box and zoom each script is
\* written with, with a network that does not fail
GeoInit ==
    /\ \/ /\ script = "osm_downloader"
          /\ \E b \in {g \in GridBoxes : ValidBox(g)} : SetBox(b)
          /\ zoom \in 1 .. MaxZoom
       \/ /\ script = "osm_downloader" /\ SetBox(PanelBox) /\ zoom = 8
       \/ /\ script = "downloader" /\ SetBox(PanelBox) /\ zoom = 10
    /\ session = IF script = "osm_downloader" THEN << << >>, Line("y") >> ELSE << >>
    /\ faults = 0
    /\ InitProcess /\ InitWorld

---------------------------------------------------------------------------
(* Steps of the scripts *)

settings == << script, session, lat_min, lon_min, lat_max, lon_max, zoom >>
world == << cache, saved, run, faults, server_version, prev_image, prev_failed >>
grid == << tiles, total_tiles, cols, rows, x_offset, y_offset >>
counters == << successful_downloads, failed_downloads, cached_tiles >>

\* input() at the end of stdin raises EOFError, which no handler catches
AtEof == nread >= Len(session)

\* the server selection loop: one input() and its handling
SelectServer ==
    /\ pc = "select"
    /\ IF AtEof THEN pc' = "eof" /\ exit_code' = 1 /\ UNCHANGED << nread, tile_server_choice >>
       ELSE
       LET selection == Strip(session[nread + 1])
           selected_index == ParseInt(selection) - 1
       IN  /\ nread' = nread + 1
           /\ IF selection = << >>
                THEN tile_server_choice' = server_keys[1] /\ pc' = "apikey"
                ELSE IF ~IsNumber(selection)
                  THEN UNCHANGED << tile_server_choice, pc >>
                  ELSE IF 0 <= selected_index /\ selected_index < Len(server_keys)
                    THEN /\ tile_server_choice' = server_keys[selected_index + 1]
                         /\ pc' = "apikey"
                    ELSE UNCHANGED << tile_server_choice, pc >>
           /\ UNCHANGED exit_code
    /\ UNCHANGED << settings, world, grid, counters, api_key, image, i,
                    inflight, log, slept, cropped_image >>

\* the API key prompt; sys.exit(1) on a key that is empty after strip()
PromptApiKey ==
    /\ pc = "apikey"
    /\ IF TILE_SERVERS[tile_server_choice].requires_key
         THEN IF AtEof THEN pc' = "eof" /\ exit_code' = 1 /\ UNCHANGED << nread, api_key >>
              ELSE
              LET api_key_input == Strip(session[nread + 1])
              IN  /\ nread' = nread + 1
                  /\ IF api_key_input = << >>
                       THEN pc' = "exited" /\ exit_code' = 1 /\ UNCHANGED api_key
                       ELSE /\ api_key' = api_key_input
                            /\ pc' = "confirm"
                            /\ UNCHANGED exit_code
         ELSE pc' = "confirm" /\ UNCHANGED << nread, api_key, exit_code >>
    /\ UNCHANGED << settings, world, grid, counters, tile_server_choice, image, i,
                    inflight, log, slept, cropped_image >>

\* "Continue with download? (y/n)"; sys.exit(0) unless the answer lowers to "y"
Confirm ==
    /\ pc = "confirm"
    /\ IF AtEof THEN pc' = "eof" /\ exit_code' = 1 /\ UNCHANGED nread
       ELSE
       LET user_confirmation == session[nread + 1]
       IN  /\ nread' = nread + 1
           /\ IF Lower(user_confirmation) # Line("y")
                THEN pc' = "cancelled" /\ exit_code' = 0
                ELSE pc' = "tiles" /\ UNCHANGED exit_code
    /\ UNCHANGED << settings, world, grid, counters, tile_server_choice, api_key,
                    image, i, inflight, log, slept, cropped_image >>

\* the tile list, the canvas and the offsets
Enumerate ==
    /\ pc = "tiles"
    /\ LET ts == MercantileTiles(lon_min, lat_min, lon_max, lat_max, zoom)
           xs == {ts[k].x : k \in 1 .. Len(ts)}
           ys == {ts[k].y : k \in 1 .. Len(ts)}
       IN  /\ tiles' = ts
           /\ total_tiles' = Len(ts)
           /\ cols' = SetMax(xs) - SetMin(xs) + 1
           /\ rows' = SetMax(ys) - SetMin(ys) + 1
           /\ x_offset' = SetMin(xs)
           /\ y_offset' = SetMin(ys)
    /\ image' = {}
    /\ successful_downloads' = 0 /\ failed_downloads' = 0 /\ cached_tiles' = 0
    /\ i' = 0
    /\ pc' = "loop"
    /\ UNCHANGED << settings, world, nread, tile_server_choice, api_key,
                    inflight, log, slept, cropped_image, exit_code >>

\* the head of one iteration of the tile loop: the end of the loop, or the
\* cache lookup of osm_downloader.py (downloader.py goes straight to the GET)
LoopHead ==
    /\ pc = "loop"
    /\ IF i = total_tiles
         THEN /\ pc' = "crop"
              /\ UNCHANGED << image, cached_tiles, i, log >>
         ELSE LET tile == tiles[i + 1] IN
              IF script = "downloader"
                THEN pc' = "get" /\ UNCHANGED << image, cached_tiles, i, log >>
                ELSE LET cache_file == CacheFile(tile) IN
                     IF CacheExists(cache_file)
                       THEN IF Decodable(cache[cache_file])
                              THEN /\ image' = Paste(image, Decode(cache[cache_file]),
                                                     PastePos(tile))
                                   /\ cached_tiles' = cached_tiles + 1
                                   /\ i' = i + 1
                                   /\ log' = Append(log, << "hit", i + 1 >>)
                                   /\ UNCHANGED pc
                              ELSE /\ log' = Append(log, << "cache_error", i + 1 >>)
                                   /\ pc' = AfterCacheError.pc
                                   /\ i' = AfterCacheError.i
                                   /\ UNCHANGED << image, cached_tiles >>
                       ELSE /\ pc' = AfterCacheMiss
                            /\ UNCHANGED << image, cached_tiles, i, log >>
    /\ UNCHANGED << settings, world, grid, nread, tile_server_choice, api_key,
                    successful_downloads, failed_downloads, inflight, slept,
                    cropped_image, exit_code >>

\* time.sleep(REQUEST_DELAY)
Sleep ==
    /\ pc = "sleep"
    /\ slept' = slept + REQUEST_DELAY
    /\ log' = Append(log, << "sleep", i + 1 >>)
    /\ pc' = "get"
    /\ UNCHANGED << settings, world, grid, counters, nread, tile_server_choice,
                    api_key, image, i, inflight, cropped_image, exit_code >>

\* requests.get is called: the request leaves
Get ==
    /\ pc = "get"
    /\ inflight' = inflight \cup {Request(tiles[i + 1])}
    /\ log' = Append(log, << "get", i + 1 >>)
    /\ pc' = "resp"
    /\ UNCHANGED << settings, world, grid, counters, nread, tile_server_choice,
                    api_key, image, i, slept, cropped_image, exit_code >>

\* requests.get returns or raises, and the rest of the try block runs
Respond ==
    /\ pc = "resp"
    /\ LET tile == tiles[i + 1] IN
       \E response \in Outcomes(tile) :
          /\ IsFault(response, tile) => faults > 0
          /\ faults' = IF IsFault(response, tile) THEN faults - 1 ELSE faults
          /\ inflight' = inflight \ {Request(tile)}
          /\ IF response.kind = "exception"
               THEN /\ failed_downloads' = CountFailure(failed_downloads)
                    /\ log' = Append(log, << "exception", i + 1, 0 >>)
                    /\ pc' = AfterFailure.pc /\ i' = AfterFailure.i
                    /\ UNCHANGED << cache, image, successful_downloads >>
               ELSE IF StatusOk(response.status_code)
                 THEN /\ cache' = IF script = "osm_downloader"
                                    THEN (CacheFile(tile) :> response.content) @@ cache
                                    ELSE cache
                      /\ IF Decodable(response.content)
                           THEN /\ image' = Paste(image, Decode(response.content),
                                                  PastePos(tile))
                                /\ successful_downloads' = successful_downloads + 1
                                /\ log' = Append(log, << "ok", i + 1,
                                                         response.status_code >>)
                                /\ pc' = "loop" /\ i' = i + 1
                                /\ UNCHANGED failed_downloads
                           ELSE /\ failed_downloads' = CountFailure(failed_downloads)
                                /\ log' = Append(log, << "decode_error", i + 1,
                                                         response.status_code >>)
                                /\ pc' = AfterFailure.pc /\ i' = AfterFailure.i
                                /\ UNCHANGED << image, successful_downloads >>
                 ELSE /\ failed_downloads' = CountFailure(failed_downloads)
                      /\ log' = Append(log, << "bad_status", i + 1,
                                               response.status_code >>)
                      /\ pc' = AfterFailure.pc /\ i' = AfterFailure.i
                      /\ UNCHANGED << cache, image, successful_downloads >>
    /\ UNCHANGED << settings, grid, nread, tile_server_choice, api_key, cached_tiles,
                    slept, cropped_image, exit_code, saved, run, server_version,
                    prev_image, prev_failed >>

\* output_filename
OutputFilename ==
    IF script = "downloader"
      THEN [stem |-> "panel18", auth |-> FALSE, z |-> 0, ext |-> "png"]
      ELSE [stem |-> tile_server_choice, auth |-> api_key # << >>, z |-> zoom,
            ext |-> TILE_SERVERS[tile_server_choice].format]

\* the crop bounds, image.crop and cropped_image.save
Crop ==
    /\ pc = "crop"
    /\ LET lb == lat_lon_to_pixel(lat_min, lon_min)
           rt == lat_lon_to_pixel(lat_max, lon_max)
           left == lb[1]
           bottom == lb[2]
           right == rt[1]
           top == rt[2]
           out == [left |-> left, top |-> top, right |-> right, bottom |-> bottom,
                   width |-> right - left, height |-> bottom - top]
       IN  /\ cropped_image' = << out >>
           /\ saved' = {f \in saved : f.name # OutputFilename}
                         \cup {[name |-> OutputFilename, width |-> out.width,
                                height |-> out.height]}
    /\ pc' = "done"
    /\ exit_code' = 0
    /\ UNCHANGED << settings, grid, counters, nread, tile_server_choice, api_key,
                    image, i, inflight, log, slept, cache, run, faults,
                    server_version, prev_image, prev_failed >>

\* the script is started again; the cache directory and the output files stay,
\* and the server may have rendered new map data in between
Rerun ==
    /\ pc = "done"
    /\ run < MaxRuns
    /\ run' = run + 1
    /\ prev_image' = image
    /\ prev_failed' = failed_downloads
    /\ server_version' \in {server_version, server_version + 1}
    /\ nread' = 0
    /\ pc' = Start(script)
    /\ tile_server_choice' = ""
    /\ api_key' = << >>
    /\ tiles' = << >>
    /\ total_tiles' = 0
    /\ cols' = 0 /\ rows' = 0 /\ x_offset' = 0 /\ y_offset' = 0
    /\ image' = {}
    /\ successful_downloads' = 0 /\ failed_downloads' = 0 /\ cached_tiles' = 0
    /\ i' = 0
    /\ inflight' = {}
    /\ log' = << >>
    /\ slept' = 0
    /\ cropped_image' = << >>
    /\ exit_code' = -1
    /\ UNCHANGED << settings, cache, saved, faults >>

\* one run of a script
RunStep ==
    \/ SelectServer
    \/ PromptApiKey
    \/ Confirm
    \/ Enumerate
    \/ LoopHead
    \/ Sleep
    \/ Get
    \/ Respond
    \/ Crop

Next == RunStep \/ Rerun

\* runs and reruns over small boxes with an unreliable network
Spec == Init /\ [][Next]_vars

\* one run over each box of the grid with a reliable network
GeoSpec == GeoInit /\ [][RunStep]_vars

---------------------------------------------------------------------------
(* Reading the event log of a run *)

FailureKinds == {"bad_status", "exception", "decode_error"}
ResponseKinds == FailureKinds \cup {"ok"}

EventsOf(kinds) == {k \in 1 .. Len(log) : log[k][1] \in kinds}
Count(kind, t) == Cardinality({k \in 1 .. Len(log) : log[k][1] = kind /\ log[k][2] = t})
Happened(kind, t) == \E k \in 1 .. Len(log) : log[k][1] = kind /\ log[k][2] = t

\* the cell of tile t of the canvas holds a pasted tile
CellPasted(t) ==
    \E p \in image : /\ p.px = (tiles[t].x - x_offset) * 256
                     /\ p.py = (tiles[t].y - y_offset) * 256

\* the events of a failed download
FailedDownload(t) == \E kind \in FailureKinds : Happened(kind, t)

---------------------------------------------------------------------------
(* C1: a download that ends in a non-200 response, in a network exception   *)
(* or in bytes that cannot be decoded adds exactly one to failed_downloads, *)
(* pastes nothing for its tile, is not repeated (one GET for the tile in    *)
(* the run), and the loop goes on to the next tile.                         *)
C1_FailedDownloadSkipsTile ==
    /\ failed_downloads = Cardinality(EventsOf(FailureKinds))
    /\ \A k \in EventsOf(FailureKinds) :
          LET t == log[k][2]
          IN  /\ ~CellPasted(t)
              /\ Count("get", t) = 1
              /\ i >= t
              /\ k = Len(log) => (i = t /\ pc # "resp" /\ inflight = {})

\* a download ended in bytes that could not be decoded: its cell is blank,
\* it was counted once, and the loop went on to download and paste the next tile
C1_Witness ==
    \E t \in 1 .. total_tiles :
       /\ Happened("decode_error", t)
       /\ Happened("ok", t + 1)
       /\ failed_downloads = 1
       /\ ~CellPasted(t) /\ CellPasted(t + 1)

---------------------------------------------------------------------------
(* C2, as claimed: a cache file that cannot be decoded is counted as a      *)
(* failure, the tile is left blank and no GET is issued for it in the run.  *)
C2_CorruptCacheNeverFetched ==
    \A t \in 1 .. total_tiles :
       Happened("cache_error", t) =>
          /\ Count("get", t) = 0
          /\ (i >= t => failed_downloads >= 1 /\ ~CellPasted(t))

(* C2, amended: a cache file that cannot be decoded is caught and is not    *)
(* counted by itself; the script falls through to the download of the same  *)
(* tile, so that once the tile is done exactly one GET has been issued for  *)
(* it, and the tile is counted and pasted as that download ends: pasted and *)
(* counted as a successful download on a decodable 200 response, left blank *)
(* and counted as failed otherwise.                                         *)
C2_CorruptCacheFallsThroughToDownload ==
    \A t \in 1 .. total_tiles :
       Happened("cache_error", t) =>
          /\ ~Happened("hit", t)
          /\ Count("cache_error", t) = 1
          /\ i >= t - 1
          /\ i = t - 1 => pc \in {"sleep", "get", "resp"}
          /\ i >= t =>
                /\ Count("get", t) = 1
                /\ Happened("ok", t) \/ FailedDownload(t)
                /\ Happened("ok", t) <=> CellPasted(t)
       /\ cached_tiles = Cardinality(EventsOf({"hit"}))
       /\ successful_downloads = Cardinality(EventsOf({"ok"}))
       /\ failed_downloads = Cardinality(EventsOf(FailureKinds))

\* a corrupt cache file was found, and the download that followed succeeded
C2_Witness ==
    \E t \in 1 .. total_tiles :
       /\ Happened("cache_error", t) /\ Happened("ok", t)
       /\ CellPasted(t) /\ failed_downloads = 0

---------------------------------------------------------------------------
(* C3: fetch or cache, tile by tile *)

\* every tile that is done was either pasted from its cache file without a
\* GET, or had exactly one GET; no tile has more than one GET in a run
C3_OneGetPerTile ==
    \A t \in 1 .. total_tiles :
       /\ Count("get", t) <= 1
       /\ t <= i =>
             \/ Happened("hit", t) /\ Count("get", t) = 0 /\ CellPasted(t)
             \/ ~Happened("hit", t) /\ Count("get", t) = 1

\* a cache file that exists and decodes is pasted, and the tile is done
\* without a request
C3_HitStep ==
    (/\ pc = "loop" /\ i < total_tiles /\ script = "osm_downloader"
     /\ CacheFile(tiles[i + 1]) \in DOMAIN cache
     /\ Head(cache[CacheFile(tiles[i + 1])]) = "IMG")
    => /\ image' = {p \in image : ~(p.px = (tiles[i + 1].x - x_offset) * 256
                                     /\ p.py = (tiles[i + 1].y - y_offset) * 256)}
                     \cup {[px |-> (tiles[i + 1].x - x_offset) * 256,
                            py |-> (tiles[i + 1].y - y_offset) * 256,
                            img |-> Tail(cache[CacheFile(tiles[i + 1])])]}
       /\ i' = i + 1
       /\ pc' = "loop"
       /\ inflight' = {} /\ log' = Append(log, << "hit", i + 1 >>)

\* the cache changes only when a response with status 200 is handled, and
\* then only at the cache file of the current tile
C3_WriteStep ==
    cache' # cache
    => /\ pc = "resp" /\ script = "osm_downloader"
       /\ Last(log')[3] = 200
       /\ DOMAIN cache' = DOMAIN cache \cup {CacheFile(tiles[i + 1])}
       /\ \A f \in DOMAIN cache : f # CacheFile(tiles[i + 1]) => cache'[f] = cache[f]

\* the download that a step has just finished ended in one of the kinds
Ended(kinds) == pc = "resp" /\ Len(log') = Len(log) + 1 /\ Last(log')[1] \in kinds

(* C3, as claimed: a tile whose cache file exists and decodes is pasted     *)
(* from the file without a GET, every other tile has exactly one GET, the   *)
(* bytes are written to the cache only on a 200 response, and a failed      *)
(* fetch never creates or changes a cache entry.                            *)
C3_FailedFetchNeverTouchesCache ==
    /\ []C3_OneGetPerTile
    /\ [][C3_HitStep /\ C3_WriteStep /\ (Ended(FailureKinds) => cache' = cache)]_vars

(* C3, amended: as claimed, except that only a fetch that ends in a non-200 *)
(* response or in an exception leaves the cache as it was; a 200 response   *)
(* whose bytes cannot be decoded is counted as failed and yet written to    *)
(* the cache file of its tile.                                              *)
C3_FetchOrCache ==
    /\ []C3_OneGetPerTile
    /\ [][/\ C3_HitStep
          /\ C3_WriteStep
          /\ Ended({"bad_status", "exception"}) => cache' = cache
          /\ Ended({"decode_error"}) =>
                (script = "osm_downloader" =>
                    /\ CacheFile(tiles[i + 1]) \in DOMAIN cache'
                    /\ Head(cache'[CacheFile(tiles[i + 1])]) # "IMG")]_vars

\* in a second run one tile came from the cache without a GET and another
\* got a non-200 response that left no cache file
C3_Witness ==
    \E t, u \in 1 .. total_tiles :
       /\ Happened("hit", t) /\ Count("get", t) = 0
       /\ Happened("bad_status", u) /\ Count("get", u) = 1
       /\ CacheFile(tiles[u]) \notin DOMAIN cache

---------------------------------------------------------------------------
(* C4: round trip through the cache (osm_downloader.py) *)

\* the paste of the previous run in the cell of tile t, if any
PrevPastes(t) ==
    {p \in prev_image : /\ p.px = (tiles[t].x - x_offset) * 256
                        /\ p.py = (tiles[t].y - y_offset) * 256}

(* C4, as claimed: whatever the server answered in the first run, the       *)
(* second run ends with a canvas identical to that of the first.            *)
C4_SecondCanvasIdentical ==
    (script = "osm_downloader" /\ run = 2 /\ pc = "done") => image = prev_image

(* C4, amended: every tile the previous run pasted is pasted by the next    *)
(* run from the cache, with the same pixels at the same place and without   *)
(* a GET; so the canvas of the next run is identical to that of the         *)
(* previous one whenever no tile failed in the previous run.  A tile that   *)
(* failed is fetched again and may fill a cell that was blank.              *)
C4_CachedTilesRoundTrip ==
    (script = "osm_downloader" /\ run > 1) =>
       /\ \A t \in 1 .. i :
             PrevPastes(t) # {} =>
                /\ PrevPastes(t) \subseteq image
                /\ Count("get", t) = 0
       /\ (pc = "done" /\ prev_failed = 0) => image = prev_image

\* the second run is over, every tile came from the cache, and the canvas is
\* that of the first run although the server renders new data
C4_Witness ==
    /\ script = "osm_downloader" /\ run = 2 /\ pc = "done"
    /\ prev_failed = 0 /\ total_tiles = 2 /\ cached_tiles = 2
    /\ server_version = 2
    /\ image = prev_image /\ Cardinality(image) = 2

---------------------------------------------------------------------------
(* C5: a required API key that is missing or blank is fatal at once *)

AllBlank(line) == \A n \in 1 .. Len(line) : line[n] = " "

(* C5: at the API key prompt the script exits exactly when the chosen       *)
(* server requires a key and the line typed is empty or blank; it exits     *)
(* with status 1 before any tile is listed, any request is sent, any cache  *)
(* file is written or any image is saved.                                   *)
C5_MissingKeyIsFatal ==
    /\ [](pc = "exited" =>
            /\ exit_code = 1
            /\ TILE_SERVERS[tile_server_choice].requires_key
            /\ api_key = << >>
            /\ tiles = << >> /\ total_tiles = 0
            /\ log = << >> /\ inflight = {}
            /\ DOMAIN cache = {} /\ saved = {} /\ cropped_image = << >>)
    /\ [][pc = "apikey" =>
            /\ pc' \in {"exited", "confirm"}
            /\ pc' = "exited" <=>
                  /\ TILE_SERVERS[tile_server_choice].requires_key
                  /\ nread < Len(session)
                  /\ AllBlank(session[nread + 1])
            /\ UNCHANGED << cache, saved, tiles, inflight, log >>]_vars

\* the script has exited on a key of two blanks
C5_Witness ==
    /\ pc = "exited" /\ exit_code = 1
    /\ session[nread] = << " ", " " >>

---------------------------------------------------------------------------
(* C9: sequential, rate limited fetches (osm_downloader.py) *)

(* C9: every GET comes right after exactly one sleep of REQUEST_DELAY for   *)
(* the same tile, the response of a GET is handled before anything else     *)
(* happens (at most one request is in flight, and only while the script     *)
(* waits for it), and a tile served from the cache has neither a sleep nor  *)
(* a GET.                                                                   *)
C9_SequentialRateLimited ==
    script = "osm_downloader" =>
       /\ \A k \in EventsOf({"get"}) :
             /\ k > 1 /\ log[k - 1] = << "sleep", log[k][2] >>
             /\ k > 2 => log[k - 2][1] # "sleep"
             /\ k < Len(log) => /\ log[k + 1][1] \in ResponseKinds
                                /\ log[k + 1][2] = log[k][2]
             /\ k = Len(log) => pc = "resp"
       /\ \A k \in EventsOf({"sleep"}) :
             IF k < Len(log) THEN log[k + 1] = << "get", log[k][2] >> ELSE pc = "get"
       /\ Cardinality(inflight) <= 1
       /\ inflight # {} <=> pc = "resp"
       /\ slept = REQUEST_DELAY * Cardinality(EventsOf({"sleep"}))
       /\ \A t \in 1 .. total_tiles :
             Happened("hit", t) => Count("sleep", t) = 0 /\ Count("get", t) = 0

\* a second run served one tile from the cache and slept once before the
\* one GET of the other
C9_Witness ==
    /\ script = "osm_downloader" /\ pc = "done"
    /\ \E t, u \in 1 .. total_tiles : Happened("hit", t) /\ Happened("get", u)
    /\ slept = REQUEST_DELAY

---------------------------------------------------------------------------
(* C10: every tile is counted exactly once *)

Accounted == successful_downloads + cached_tiles + failed_downloads

(* C10: while the loop runs the three counters sum to the number of tiles   *)
(* done, after the loop they sum to total_tiles, no counter decreases       *)
(* during a run, and a run that has listed its tiles goes on to crop and    *)
(* save however many tiles failed.                                          *)
C10_EveryTileCountedOnce ==
    /\ [](/\ pc \in {"loop", "sleep", "get", "resp"} =>
                Accounted = i /\ i <= total_tiles
          /\ pc \in {"crop", "done"} =>
                Accounted = total_tiles /\ i = total_tiles
          /\ pc = "done" =>
                /\ cropped_image # << >>
                /\ \E f \in saved : f.name = OutputFilename)
    /\ [][run' = run =>
             /\ successful_downloads' >= successful_downloads
             /\ cached_tiles' >= cached_tiles
             /\ failed_downloads' >= failed_downloads
             /\ Accounted' <= Accounted + 1]_vars
    /\ (pc = "loop") ~> (pc = "done")

\* a run in which every tile failed has been cropped and saved
C10_Witness ==
    /\ pc = "done" /\ total_tiles = 2 /\ failed_downloads = 2
    /\ Accounted = total_tiles /\ saved # {}

\* the scripts run to their end: a step that can be taken is taken
FairSpec == Spec /\ WF_vars(Next)

---------------------------------------------------------------------------
(* C6: the tile set fills its rectangle, and the pastes tile the canvas *)

InLoopOrAfter == pc \in {"loop", "sleep", "get", "resp", "crop", "done"}

\* two pasted tiles of 256 x 256 pixels share no pixel
Disjoint(p, q) ==
    \/ p.px + 256 <= q.px \/ q.px + 256 <= p.px
    \/ p.py + 256 <= q.py \/ q.py + 256 <= p.py

---------------------------------------------------------------------------
(* C7: the crop rectangle and the canvas *)

InsideCanvas ==
    LET c == cropped_image[1]
    IN  /\ 0 <= c.left /\ c.left <= c.right /\ c.right <= cols * 256
        /\ 0 <= c.top /\ c.top <= c.bottom /\ c.bottom <= rows * 256

\* the example of the specification: the box both scripts are written with
PanelExample ==
    (/\ lat_min = 473810 /\ lon_min = 83795 /\ lat_max = 489260 /\ lon_max = 106920
     /\ zoom \in {8, 10})
    => LET c == cropped_image[1]
       IN  /\ total_tiles > 0
           /\ c.width > 0 /\ c.width <= cols * 256
           /\ c.height > 0 /\ c.height <= rows * 256

InMercatorRange ==
    /\ -850511 <= lat_min /\ lat_max <= 850511
    /\ -1800000 <= lon_min /\ lon_max <= 1800000

(* C7, as claimed: for every box with lat_min < lat_max and lon_min <       *)
(* lon_max the crop rectangle lies inside the canvas, and the example box   *)
(* gives a tile count and a cropped size that are positive and at most the  *)
(* canvas size.                                                             *)
C7_CropInsideCanvasForEveryBox ==
    pc = "done" => (InsideCanvas /\ PanelExample)

(* C7, amended: the same for every box whose corners lie in the Web         *)
(* Mercator range (latitude within 85.0511 degrees of the equator,          *)
(* longitude within 180 degrees).  mercantile.tiles clamps the box to that  *)
(* range and lat_lon_to_pixel does not, so a corner beyond it gives a crop  *)
(* bound outside the canvas.                                                *)
C7_CropInsideCanvas ==
    pc = "done" => ((InMercatorRange => InsideCanvas) /\ PanelExample)

\* a box in range whose south-east corner is on a tile boundary: the crop
\* reaches the right and bottom edges of a canvas of several tiles
C7_Witness ==
    /\ pc = "done" /\ InMercatorRange
    /\ lon_max = 0 /\ lat_min = 0 /\ zoom = 2
    /\ cols > 1 /\ rows > 1
    /\ cropped_image[1].right = cols * 256
    /\ cropped_image[1].bottom = rows * 256
    /\ cropped_image[1].left > 0 /\ cropped_image[1].top > 0

---------------------------------------------------------------------------
(* C8: a larger box never gives a smaller output image *)

\* the offsets and the cropped size a run computes for box b at zoom z
OffsetsOf(b, z) ==
    LET ts == MercantileTiles(b.lon_min, b.lat_min, b.lon_max, b.lat_max, z)
    IN  [x |-> SetMin({ts[k].x : k \in 1 .. Len(ts)}),
         y |-> SetMin({ts[k].y : k \in 1 .. Len(ts)})]
CropSizeOf(b, z) ==
    LET o == OffsetsOf(b, z)
    IN  [width |-> PixelX(b.lon_max, z, o.x) - PixelX(b.lon_min, z, o.x),
         height |-> PixelY(b.lat_min, z, o.y) - PixelY(b.lat_max, z, o.y)]

\* the boxes of the grid that the box of this run contains
InnerBoxes ==
    {b \in GridBoxes : /\ ValidBox(b)
                       /\ lat_min <= b.lat_min /\ b.lat_max <= lat_max
                       /\ lon_min <= b.lon_min /\ b.lon_max <= lon_max}

(* C8: the cropped image of a run is at least as wide and as high as the    *)
(* cropped image the script computes, at the same zoom, for any box that    *)
(* the box of the run contains.                                             *)
C8_CropMonotonic ==
    (pc = "done" /\ zoom <= MaxZoom) =>
       \A b \in InnerBoxes :
          LET inner == CropSizeOf(b, zoom)
          IN  /\ inner.width <= cropped_image[1].width
              /\ inner.height <= cropped_image[1].height

\* a run whose box contains a smaller box with other canvas offsets and a
\* strictly smaller cropped image
C8_Witness ==
    /\ pc = "done" /\ zoom <= MaxZoom
    /\ \E b \in InnerBoxes :
          LET inner == CropSizeOf(b, zoom)
              o == OffsetsOf(b, zoom)
          IN  /\ o.x # x_offset /\ o.y # y_offset
              /\ 0 < inner.width /\ inner.width < cropped_image[1].width
              /\ 0 < inner.height /\ inner.height < cropped_image[1].height

=============================================================================
